---- MODULE Spec2Model ----
(***************************************************************************)
(* The GPO Reference Aggregate Manager v3 (src/src/geni/am/am3.py):        *)
(* the slice registry, the resource catalog, the expiration sweeper and    *)
(* the seven operations of ReferenceAggregateManager, as a state machine.  *)
(* Time is in seconds; the clock advances in steps of TimeStep.            *)
(***************************************************************************)
EXTENDS Integers, Sequences, FiniteSets, TLC

VARIABLES
    slices,      \* ReferenceAggregateManager._slices: urn -> Slice
    res,         \* the Resource objects held by the Aggregate, by position
    containers,  \* Aggregate.containers: container name -> list of resources
    now,         \* datetime.datetime.utcnow()
    result,      \* the last call: its arguments and what the delegate returned
    rstat,       \* Slice.status: the statuses of the resources passed in
    nself,       \* Slice.status: len(self.resources())
    sstatus,     \* Slice.status: the value returned
    requests     \* the requests the server is handling, each with the
                 \* position of its method and the method's local variables

vars == <<slices, res, containers, now, result, rstat, nself, sstatus, requests>>

----------------------------------------------------------------------------
(* Bounds of the model *)

MaxTicks == 2       \* the clock runs from 0 to MaxTicks * TimeStep
MaxCreds == 2       \* credentials returned by one verification
MaxNodes == 3       \* node elements in a request RSpec
MaxUrns == 2        \* URNs in one Delete call
MaxStat == 3        \* resources handed to Slice.status

(* Program constants *)

NumResources == 3
REFAM_MAXLEASE_DAYS == 365
ALLOCATE_EXPIRATION_SECONDS == 10 * 60
GENERIC_FAILURE == 102

TimeStep == ALLOCATE_EXPIRATION_SECONDS \div 2
max_lease == REFAM_MAXLEASE_DAYS * 86400
FarFuture == max_lease + (MaxTicks + 1) * TimeStep

\* the slice URNs the callers use
SliceUrns == {1, 2}
ResIds == 1..NumResources

STATUS_CONFIGURING == "configuring"
STATUS_READY == "ready"
STATUS_FAILED == "failed"
STATUS_UNKNOWN == "unknown"
STATUS_SHUTDOWN == "shutdown"
STATUS_UNCONFIGURED == "unconfigured"
STATE_GENI_UNALLOCATED == "unallocated"
STATE_GENI_ALLOCATED == "allocated"

ResourceStatuses ==
    {STATUS_UNCONFIGURED, STATUS_CONFIGURING, STATUS_READY, STATUS_FAILED,
     STATUS_SHUTDOWN}

None == 0    \* Python's None, for a client id and for an absent URN

----------------------------------------------------------------------------
(* Helpers on sequences and sets *)

Min2(a, b) == IF a < b THEN a ELSE b

RECURSIVE SeqOfSet(_)
SeqOfSet(S) ==
    IF S = {} THEN <<>>
    ELSE LET m == CHOOSE x \in S : \A y \in S : x <= y
         IN <<m>> \o SeqOfSet(S \ {m})

SeqsUpTo(S, n) == UNION {[1..k -> S] : k \in 0..n}

----------------------------------------------------------------------------
(* resource.py, not part of the sources at hand: a Resource as sections 3  *)
(* and 4.1 of the specification describe it.                                *)

\* Resource.__init__: a fresh resource
Resource ==
    [available |-> TRUE, external_id |-> None,
     state |-> STATE_GENI_UNALLOCATED, status |-> STATUS_UNCONFIGURED]

\* Resource.reset: clears the binding fields
reset(r) ==
    [r EXCEPT !.available = TRUE, !.external_id = None,
              !.state = STATE_GENI_UNALLOCATED, !.status = STATUS_UNCONFIGURED]

(* aggregate.py, not part of the sources at hand: an Aggregate keeps the    *)
(* list of all resources and, per container name, the resources allocated   *)
(* to it with Aggregate.allocate.                                           *)

\* Aggregate.catalog(container): all resources, or those of one container
catalog(cn, container) ==
    IF container = None THEN SeqOfSet(ResIds)
    ELSE IF container \in DOMAIN cn THEN cn[container]
    ELSE <<>>

\* Aggregate.deallocate(container, None): empties the container and drops
\* the empty containers
deallocate(cn, container) ==
    LET keep == {c \in DOMAIN cn : c # container /\ cn[c] # <<>>}
    IN [c \in keep |-> cn[c]]

----------------------------------------------------------------------------
(* class Slice *)

\* Slice.__init__ followed by add_resource for each resource of rs
Slice(expiration, rs) == [expiration |-> expiration, _resources |-> rs]

\* Slice.resources(): the values of the _resources dictionary
slice_resources(s) == SeqOfSet(s._resources)

\* "all ready" judged on the statuses handed in, whatever their number
AllReady_any(rs, n) == \A i \in 1..Len(rs) : rs[i] = STATUS_READY

\* the "all ready" branch of Slice.status: rstat == [READY for res in self.resources()]
AllReady(rs, n) ==
    Len(rs) = n /\ \A i \in 1..Len(rs) : rs[i] = STATUS_READY

\* Slice.status(resources): rs is [res.status for res in resources],
\* n is len(self.resources())
status(rs, n) ==
    LET in(x) == \E i \in 1..Len(rs) : rs[i] = x
    IN IF in(STATUS_SHUTDOWN) THEN STATUS_SHUTDOWN
       ELSE IF in(STATUS_FAILED) THEN STATUS_FAILED
       ELSE IF in(STATUS_CONFIGURING) THEN STATUS_CONFIGURING
       ELSE IF AllReady(rs, n) THEN STATUS_READY
       ELSE STATUS_UNKNOWN

\* [res.status for res in resources]
statuses(R, ids) == [i \in 1..Len(ids) |-> R[ids[i]].status]

----------------------------------------------------------------------------
(* class ReferenceAggregateManager: helpers *)

\* resources with the availability filter dropped
resources_unfiltered(R, available) == catalog(<<>>, None)

\* ReferenceAggregateManager.resources(available): the catalog, filtered
resources(R, available) ==
    SelectSeq(catalog(<<>>, None), LAMBDA r : R[r].available = available)

\* the collection that stops at the first expired slice
expired_first(sl, t) ==
    LET ex == {u \in DOMAIN sl : sl[u].expiration < t}
    IN IF ex = {} THEN {} ELSE {CHOOSE u \in ex : \A v \in ex : u <= v}

\* the slices expire_slices collects
expired(sl, t) == {u \in DOMAIN sl : sl[u].expiration < t}

\* the sweep that takes the slices expiring at time t as well
expire_slices_inclusive(sl, R, cn, t) ==
    LET ex == {u \in DOMAIN sl : sl[u].expiration <= t}
        freed == UNION {sl[u]._resources : u \in ex}
    IN [slices |-> [u \in DOMAIN sl \ ex |-> sl[u]],
        res |-> [r \in ResIds |-> IF r \in freed THEN reset(R[r]) ELSE R[r]],
        containers |-> cn]

\* ReferenceAggregateManager.expire_slices at time t, on the registry sl,
\* the resources R and the containers cn
expire_slices(sl, R, cn, t) ==
    LET ex == expired(sl, t)
        freed == UNION {sl[u]._resources : u \in ex}
        keep == {c \in DOMAIN cn : c \notin ex /\ cn[c] # <<>>}
    IN [slices |-> [u \in DOMAIN sl \ ex |-> sl[u]],
        res |-> [r \in ResIds |-> IF r \in freed THEN reset(R[r]) ELSE R[r]],
        containers |-> IF ex = {} THEN cn ELSE [c \in keep |-> cn[c]]]

\* the state the operations work on
State == [slices |-> slices, res |-> res, containers |-> containers]

\* ReferenceAggregateManager.expire_slices on the state st
sweep(st, t) == expire_slices(st.slices, st.res, st.containers, t)

----------------------------------------------------------------------------
(* Inputs of the calls *)

\* the expiry instants a credential verified at time t may carry: soon, or
\* beyond the maximum lease
CredInstants(t) == {t + TimeStep, FarFuture}

\* the instants a renewal may ask for: the expiry of a credential verified
\* at time 0 (in the past once the clock has passed it), a second after it,
\* beyond the maximum lease, or a second past every credential
ReqInstants == {TimeStep, TimeStep + 1, FarFuture, FarFuture + 1}

\* CredentialVerifier.verify_from_strings (not part of the sources at hand):
\* the expiries of the credentials that verify at time t, in the order
\* supplied.  The empty list stands for the verification that raises.
Credentials(t) == SeqsUpTo(CredInstants(t), MaxCreds)

\* a request RSpec: unparseable, or a document with n node elements whose
\* client ids are 1..n
RSpecs ==
    {[parses |-> FALSE, nodes |-> <<>>]}
    \cup {[parses |-> TRUE, nodes |-> [i \in 1..n |-> i]] : n \in 0..MaxNodes}

\* the URNs a Delete may name: the slice URNs and one sliver URN
URNs ==
    {[type |-> "slice", name |-> u] : u \in SliceUrns}
    \cup {[type |-> "sliver", name |-> 1]}

UrnLists == SeqsUpTo(URNs, MaxUrns)

\* the options of ListResources: geni_rspec_version is absent, lacks its
\* type, lacks its version, names another type, names another version, or
\* is geni 3
RSpecVersions == {"absent", "notype", "noversion", "badtype", "badversion", "geni3"}
Options ==
    [geni_rspec_version : RSpecVersions, geni_slice_urn : BOOLEAN,
     geni_available : BOOLEAN]

----------------------------------------------------------------------------
(* What a call returns *)

NoResult ==
    [op |-> "none", slice_urn |-> None, creds |-> <<>>, urns |-> <<>>,
     rspec |-> [parses |-> FALSE, nodes |-> <<>>], requested |-> 0,
     options |-> [geni_rspec_version |-> "absent", geni_slice_urn |-> FALSE,
                  geni_available |-> FALSE],
     raised |-> FALSE, geni_code |-> 0, am_type |-> "", has_am_code |-> FALSE,
     listed |-> <<>>, geni_slivers |-> <<>>, geni_resources |-> <<>>,
     geni_status |-> "", maxexp |-> 0, value |-> ""]

\* ReferenceAggregateManager.successResult
successResult(call) ==
    [call EXCEPT !.geni_code = 0, !.am_type = "gcf2", !.has_am_code = TRUE,
                 !.value = "True"]

\* ReferenceAggregateManager.errorResult(code, output), am_code left None
errorResult(call, code) ==
    [call EXCEPT !.geni_code = code, !.am_type = "gcf2", !.has_am_code = FALSE,
                 !.value = ""]

\* the missing slice answered with the code of a slice that is shut down
_no_such_slice_unavailable(call) == errorResult(call, 11)

\* ReferenceAggregateManager._no_such_slice
_no_such_slice(call) == errorResult(call, 12)

\* an exception leaves the delegate
raise(call) == [call EXCEPT !.raised = TRUE]

\* an operation's outcome: the state it leaves and what it returns
Outcome(st, ret) == [st |-> st, ret |-> ret]

----------------------------------------------------------------------------
(* The operations of ReferenceAggregateManager, each a function of the     *)
(* state st, the time t of the call and the call's arguments               *)

\* ReferenceAggregateManager.GetVersion
GetVersion(st, t) ==
    Outcome(sweep(st, t),
            [NoResult EXCEPT !.op = "GetVersion", !.geni_code = 0,
                             !.am_type = "gcf", !.has_am_code = TRUE,
                             !.value = "version"])

\* bind that leaves the resource available
bind_still_available(r, client_id) == [r EXCEPT !.external_id = client_id]

\* lines 313-315 of Allocate: the resource takes the request's client id
bind(r, client_id) ==
    [r EXCEPT !.external_id = client_id, !.available = FALSE]

\* the expiration clamped by the first credential alone
clamp_first(expiration, creds) ==
    IF creds = <<>> THEN expiration
    ELSE IF Head(creds) < expiration THEN Head(creds) ELSE expiration

\* lines 320-325 of Allocate: the expiration, clamped by each credential
RECURSIVE clamp(_, _)
clamp(expiration, creds) ==
    IF creds = <<>> THEN expiration
    ELSE clamp(IF Head(creds) < expiration THEN Head(creds) ELSE expiration,
               Tail(creds))

allocate_expiration(t, creds) == clamp(t + ALLOCATE_EXPIRATION_SECONDS, creds)

\* the resource taken from the end of the list
pop_last(available, i) == available[Len(available) + 1 - i]

\* line 313 of Allocate, in the i-th turn of the loop: available.pop(0)
pop(available, i) == available[i]

\* the duplicate check skipped
already_exists_skipped(sl, slice_urn) == FALSE

\* line 282 of Allocate: the slice is already there
already_exists(sl, slice_urn) == slice_urn \in DOMAIN sl

\* the check made after the first available resource was bound
insufficient_after_binding(st, call) ==
    LET available == SelectSeq(SeqOfSet(ResIds), LAMBDA r : st.res[r].available)
    IN IF available = <<>> THEN Outcome(st, errorResult(call, 6))
       ELSE Outcome([st EXCEPT !.res[available[1]].available = FALSE],
                    errorResult(call, 6))

\* lines 306-308 of Allocate: too few resources, nothing bound yet
insufficient(st, call) == Outcome(st, errorResult(call, 6))

\* ReferenceAggregateManager.Allocate
Allocate(st0, t, slice_urn, creds, rspec) ==
    LET call == [NoResult EXCEPT !.op = "Allocate", !.slice_urn = slice_urn,
                                 !.creds = creds, !.rspec = rspec]
        st == sweep(st0, t)
        available == resources(st.res, TRUE)
        unbound == rspec.nodes
        n == Len(unbound)
        taken == {pop(available, i) : i \in 1..n}
        expiration == allocate_expiration(t, creds)
        R2 == [r \in ResIds |->
                 IF \E i \in 1..n : pop(available, i) = r
                 THEN LET i == CHOOSE j \in 1..n : pop(available, j) = r
                      IN [bind(st.res[r], unbound[i])
                            EXCEPT !.state = STATE_GENI_ALLOCATED]
                 ELSE st.res[r]]
        newslice == Slice(expiration, taken)
        sl2 == [u \in DOMAIN st.slices \cup {slice_urn} |->
                  IF u = slice_urn THEN newslice ELSE st.slices[u]]
        slivers == [i \in 1..n |->
                      [resource |-> slice_resources(newslice)[i],
                       geni_expires |-> expiration,
                       geni_allocation_status |->
                           R2[slice_resources(newslice)[i]].state]]
    IN IF creds = <<>> THEN Outcome(st, raise(call))
       ELSE IF already_exists(st.slices, slice_urn)
            THEN Outcome(st, errorResult(call, 17))
       ELSE IF ~rspec.parses THEN Outcome(st, errorResult(call, 1))
       ELSE IF n > Len(available) THEN insufficient(st, call)
       ELSE Outcome([st EXCEPT !.slices = sl2, !.res = R2],
                    [call EXCEPT !.geni_code = 0, !.am_type = "gcf",
                                 !.has_am_code = TRUE, !.value = "manifest",
                                 !.geni_slivers = slivers])

\* no resource left out of the listing
skipped_never(available, r) == FALSE

\* lines 236-237 of ListResources: the resource is left out of the listing
skipped(available, r) == available /\ ~r.available

\* ReferenceAggregateManager.ListResources
ListResources(st0, t, creds, options) ==
    LET call == [NoResult EXCEPT !.op = "ListResources", !.creds = creds,
                                 !.options = options]
        st == sweep(st0, t)
        v == options.geni_rspec_version
        all_resources == catalog(st.containers, None)
        listed == SelectSeq(all_resources,
                            LAMBDA r : ~skipped(options.geni_available, st.res[r]))
    IN IF creds = <<>> THEN Outcome(st, raise(call))
       ELSE IF v \in {"absent", "notype", "noversion"}
            THEN Outcome(st, errorResult(call, 1))
       ELSE IF v \in {"badtype", "badversion"}
            THEN Outcome(st, errorResult(call, 4))
       ELSE IF options.geni_slice_urn THEN Outcome(st, errorResult(call, 1))
       ELSE Outcome(st, [call EXCEPT !.geni_code = 0, !.am_type = "gcf",
                                     !.has_am_code = TRUE, !.value = "rspec",
                                     !.listed = listed])

\* the type of the first URN taken for the type of all
all_urn_types_first(urns) == IF urns = <<>> THEN {} ELSE {urns[1].type}

\* lines 355-357 of Delete: set(all_urn_types), the types of the URNs
all_urn_types(urns) == {urns[i].type : i \in 1..Len(urns)}

\* the deletion that resets the resources and leaves the slice registered
delete_slice_keep_entry(st, call, slice_urn) ==
    LET theslice == st.slices[slice_urn]
        R2 == [r \in ResIds |->
                 IF r \in theslice._resources THEN reset(st.res[r])
                 ELSE st.res[r]]
    IN IF slice_urn \notin DOMAIN st.slices
       THEN Outcome(st, _no_such_slice(call))
       ELSE Outcome([st EXCEPT !.res = R2], successResult(call))

\* lines 391-405 of Delete: the credentials are verified
delete_slice(st, call, slice_urn) ==
    LET theslice == st.slices[slice_urn]
        rs == slice_resources(theslice)
        R2 == [r \in ResIds |->
                 IF r \in theslice._resources THEN reset(st.res[r])
                 ELSE st.res[r]]
        sl2 == [u \in DOMAIN st.slices \ {slice_urn} |-> st.slices[u]]
    IN IF slice_urn \notin DOMAIN st.slices
       THEN Outcome(st, _no_such_slice(call))
       ELSE IF status(statuses(st.res, rs), Len(slice_resources(theslice)))
                 = STATUS_SHUTDOWN
            THEN Outcome(st, errorResult(call, 11))
       ELSE Outcome([slices |-> sl2, res |-> R2,
                     containers |-> deallocate(st.containers, slice_urn)],
                    successResult(call))

\* Delete that deletes before it verifies the credentials
Delete_then_verify(st, t, urns, creds) ==
    LET call == [NoResult EXCEPT !.op = "Delete", !.creds = creds,
                                 !.urns = urns]
        types == all_urn_types(urns)
        slice_urn == urns[1].name
        done == delete_slice(st, [call EXCEPT !.slice_urn = slice_urn], slice_urn)
    IN IF Cardinality(types) > 1 THEN Outcome(st, errorResult(call, 1))
       ELSE IF urns = <<>> THEN Outcome(st, raise(call))
       ELSE IF urns[1].type = "sliver" THEN Outcome(st, errorResult(call, 5))
       ELSE IF creds = <<>> THEN Outcome(done.st, raise(done.ret))
       ELSE done

\* ReferenceAggregateManager.Delete; an empty list of URNs fails at
\* all_urn_types[0]
Delete(st, t, urns, creds) ==
    LET call == [NoResult EXCEPT !.op = "Delete", !.creds = creds,
                                 !.urns = urns]
        types == all_urn_types(urns)
        slice_urn == urns[1].name
    IN IF Cardinality(types) > 1 THEN Outcome(st, errorResult(call, 1))
       ELSE IF urns = <<>> THEN Outcome(st, raise(call))
       ELSE IF urns[1].type = "sliver" THEN Outcome(st, errorResult(call, 5))
       ELSE IF creds = <<>>
            THEN Outcome(st, raise([call EXCEPT !.slice_urn = slice_urn]))
       ELSE delete_slice(st, [call EXCEPT !.slice_urn = slice_urn], slice_urn)

\* ReferenceAggregateManager.SliverStatus
SliverStatus(st, t, slice_urn, creds) ==
    LET call == [NoResult EXCEPT !.op = "SliverStatus", !.slice_urn = slice_urn,
                                 !.creds = creds]
        theSlice == st.slices[slice_urn]
        rs == catalog(st.containers, slice_urn)
        res_status == [i \in 1..Len(rs) |->
                         [resource |-> rs[i], geni_status |-> st.res[rs[i]].status]]
    IN IF creds = <<>> THEN Outcome(st, raise(call))
       ELSE IF slice_urn \notin DOMAIN st.slices
            THEN Outcome(st, _no_such_slice(call))
       ELSE Outcome(st, [call EXCEPT
                !.geni_code = 0, !.am_type = "gcf2", !.has_am_code = TRUE,
                !.value = "status",
                !.geni_status = status(statuses(st.res, rs),
                                       Len(slice_resources(theSlice))),
                !.geni_resources = res_status])

\* datetime.datetime.min, before every instant of the model
datetime_min == 0 - max_lease

\* the scan with a strict comparison
RECURSIVE scan_strict(_, _, _, _)
scan_strict(creds, i, requested, maxexp) ==
    IF i > Len(creds) THEN [renewed |-> FALSE, maxexp |-> maxexp]
    ELSE LET credexp == creds[i]
         IN IF credexp > requested
            THEN [renewed |-> TRUE, maxexp |-> credexp]
            ELSE scan_strict(creds, i + 1, requested, credexp)

\* lines 479-490 of RenewSliver: the scan of the credentials from the i-th
\* on, maxexp being the value the variable holds when the scan gets there
RECURSIVE scan(_, _, _, _)
scan(creds, i, requested, maxexp) ==
    IF i > Len(creds) THEN [renewed |-> FALSE, maxexp |-> maxexp]
    ELSE LET credexp == creds[i]
         IN IF credexp >= requested
            THEN [renewed |-> TRUE, maxexp |-> credexp]
            ELSE scan(creds, i + 1, requested, credexp)

\* the renewal that never brings the expiration forward
renew_no_earlier(sliver, requested) ==
    [sliver EXCEPT !.expiration =
        IF requested < sliver.expiration THEN sliver.expiration ELSE requested]

\* line 486 of RenewSliver: sliver.expiration = requested
renew(sliver, requested) == [sliver EXCEPT !.expiration = requested]

\* ReferenceAggregateManager.RenewSliver
RenewSliver(st, t, slice_urn, creds, requested) ==
    LET call == [NoResult EXCEPT !.op = "RenewSliver", !.slice_urn = slice_urn,
                                 !.creds = creds, !.requested = requested]
        rs == catalog(st.containers, slice_urn)
        sliver == st.slices[slice_urn]
        found == scan(creds, 1, requested, datetime_min)
    IN IF creds = <<>> THEN Outcome(st, raise(call))
       ELSE IF slice_urn \notin DOMAIN st.slices
            THEN Outcome(st, _no_such_slice(call))
       ELSE IF status(statuses(st.res, rs), Len(slice_resources(sliver)))
                 = STATUS_SHUTDOWN
            THEN Outcome(st, errorResult(call, 11))
       ELSE IF found.renewed
            THEN Outcome([st EXCEPT !.slices[slice_urn] = renew(sliver, requested)],
                         successResult(call))
       ELSE Outcome(st, [errorResult(call, 19) EXCEPT !.maxexp = found.maxexp])

\* ReferenceAggregateManager.Shutdown
Shutdown(st, t, slice_urn, creds) ==
    LET call == [NoResult EXCEPT !.op = "Shutdown", !.slice_urn = slice_urn,
                                 !.creds = creds]
        rs == catalog(st.containers, slice_urn)
        R2 == [r \in ResIds |->
                 IF \E i \in 1..Len(rs) : rs[i] = r
                 THEN [st.res[r] EXCEPT !.status = STATUS_SHUTDOWN]
                 ELSE st.res[r]]
    IN IF creds = <<>> THEN Outcome(st, raise(call))
       ELSE IF slice_urn \notin DOMAIN st.slices
            THEN Outcome(st, _no_such_slice(call))
       ELSE Outcome([st EXCEPT !.res = R2], successResult(call))

----------------------------------------------------------------------------
(* class AggregateManager: the public interface before the delegate *)

\* AggregateManager._exception_result
_exception_result(ret) ==
    [ret EXCEPT !.raised = FALSE, !.geni_code = GENERIC_FAILURE,
                !.am_type = "gcf3", !.has_am_code = TRUE, !.value = ""]

\* the operations of the delegate AggregateManager has a method for:
\* GetVersion, ListResources, Allocate, and Delete through DeleteSliver
Wrapped == {"GetVersion", "ListResources", "Allocate", "Delete"}

\* what the caller of an operation gets for what the delegate returned: the
\* methods of AggregateManager turn an exception into _exception_result
AggregateManager(ret) ==
    IF ret.op \in Wrapped /\ ret.raised THEN _exception_result(ret) ELSE ret

----------------------------------------------------------------------------
(* A request the server handles: the method called, its arguments, the     *)
(* position pc in the method, the state st0 and the time t0 the method     *)
(* began with, its local variables available and resources, and what it    *)
(* returns                                                                 *)

\* the callers that may have a request at the server at the same time
Callers == {1, 2}

NoRequest ==
    [pc |-> "idle", op |-> "none", slice_urn |-> None, creds |-> <<>>,
     nodes |-> <<>>,
     st0 |-> [slices |-> <<>>, res |-> [r \in ResIds |-> Resource],
              containers |-> <<>>],
     t0 |-> 0, available |-> <<>>, resources |-> <<>>,
     raised |-> FALSE, geni_code |-> 0]

----------------------------------------------------------------------------
(* The state machine: the clock, the calls, and the caller taking the      *)
(* returned envelope before the next call                                  *)

Init ==
    /\ slices = <<>>
    /\ res = [r \in ResIds |-> Resource]
    /\ containers = <<>>
    /\ now = 0
    /\ result = NoResult
    /\ rstat = <<>>
    /\ nself = 0
    /\ sstatus = "none"
    /\ requests = [c \in Callers |-> NoRequest]

Idle == result.op = "none"

\* the operation ends: its outcome becomes the state and the pending result
Return(o) ==
    /\ Idle
    /\ \E out \in {o} :
         /\ slices' = out.st.slices
         /\ res' = out.st.res
         /\ containers' = out.st.containers
         /\ result' = out.ret
    /\ UNCHANGED <<now, rstat, nself, sstatus, requests>>

\* the clock advances between two calls
Tick ==
    /\ Idle
    /\ now < MaxTicks * TimeStep
    /\ now' = now + TimeStep
    /\ UNCHANGED <<slices, res, containers, result, rstat, nself, sstatus, requests>>

\* the caller has the result; the next call may come
Reply ==
    /\ ~Idle
    /\ result' = NoResult
    /\ UNCHANGED <<slices, res, containers, now, rstat, nself, sstatus, requests>>

\* verification either raises or returns credentials; these are the two
\* cases for the operations that do not look at the credentials returned
Verdicts(t) == {<<>>, <<t + TimeStep>>}

CallGetVersion == Return(GetVersion(State, now))

CallListResources ==
    \E c \in Verdicts(now), o \in Options :
        Return(ListResources(State, now, c, o))

CallAllocate ==
    \E u \in SliceUrns, c \in Credentials(now), x \in RSpecs :
        Return(Allocate(State, now, u, c, x))

CallDelete ==
    \E l \in UrnLists, c \in Verdicts(now) : Return(Delete(State, now, l, c))

CallSliverStatus ==
    \E u \in SliceUrns, c \in Verdicts(now) :
        Return(SliverStatus(State, now, u, c))

CallRenewSliver ==
    \E u \in SliceUrns, c \in Credentials(now), e \in ReqInstants :
        Return(RenewSliver(State, now, u, c, e))

CallShutdown ==
    \E u \in SliceUrns, c \in Verdicts(now) : Return(Shutdown(State, now, u, c))

Next ==
    \/ Tick
    \/ Reply
    \/ CallGetVersion
    \/ CallListResources
    \/ CallAllocate
    \/ CallDelete
    \/ CallSliverStatus
    \/ CallRenewSliver
    \/ CallShutdown

Spec == Init /\ [][Next]_vars

\* some operation is called
Call ==
    \/ CallGetVersion \/ CallListResources \/ CallAllocate \/ CallDelete
    \/ CallSliverStatus \/ CallRenewSliver \/ CallShutdown

\* the same machine as time keeps advancing up to the last instant of the
\* clock, operations keep being called and each call returns to its caller
LiveSpec ==
    /\ Init /\ [][Next]_vars
    /\ SF_vars(Tick) /\ WF_vars(Call) /\ WF_vars(Reply)

----------------------------------------------------------------------------
(* Slice.status on its own: every list of statuses of up to MaxStat         *)
(* resources handed in, against every size of the slice's own resource set  *)

StatusInit ==
    /\ slices = <<>>
    /\ res = [r \in ResIds |-> Resource]
    /\ containers = <<>>
    /\ now = 0
    /\ result = NoResult
    /\ rstat \in SeqsUpTo(ResourceStatuses, MaxStat)
    /\ nself \in 0..MaxStat
    /\ sstatus = "none"
    /\ requests = [c \in Callers |-> NoRequest]

CallStatus ==
    /\ sstatus = "none"
    /\ sstatus' = status(rstat, nself)
    /\ UNCHANGED <<slices, res, containers, now, result, rstat, nself, requests>>

StatusNext == CallStatus

StatusSpec == StatusInit /\ [][StatusNext]_vars

----------------------------------------------------------------------------
(* The server: AggregateManagerServer hands the requests of its callers to *)
(* the methods of the delegate.  A method runs statement by statement;     *)
(* the operations above are the methods run from their first statement to  *)
(* their last.  GetVersion, Allocate and Delete (as DeleteSliver calls it, *)
(* with the one slice URN) are the methods followed here.                  *)

\* a server that takes a request whatever it is handling
free_threading(rq) == TRUE

\* SecureXMLRPCServer.serve_forever (not part of the sources at hand; the
\* single owner per request of section 5 of the specification): a request
\* is taken when none is being handled
free(rq) == \A c \in Callers : rq[c].pc = "idle"

\* the requests a caller may send at time t
Requests(t) ==
    {[NoRequest EXCEPT !.op = "GetVersion", !.pc = "sweep"]}
    \cup {[NoRequest EXCEPT !.op = "Allocate", !.pc = "sweep", !.slice_urn = u,
                            !.creds = c, !.nodes = [i \in 1..n |-> i]] :
            u \in SliceUrns, c \in Verdicts(t), n \in 0..MaxNodes}
    \cup {[NoRequest EXCEPT !.op = "Delete", !.pc = "verify", !.slice_urn = u,
                            !.creds = c] :
            u \in SliceUrns, c \in Verdicts(t)}

\* the request of caller c comes to position pc with the locals given
Goto(c, rq) == requests' = [requests EXCEPT ![c] = rq]

\* the method of caller c returns the code
Done(c, code) ==
    Goto(c, [requests[c] EXCEPT !.pc = "done", !.geni_code = code])

\* the server takes a request of caller c
Accept(c) ==
    /\ requests[c].pc = "idle"
    /\ free(requests)
    /\ \E rq \in Requests(now) :
         Goto(c, [rq EXCEPT !.st0 = State, !.t0 = now])
    /\ UNCHANGED <<slices, res, containers, now, result, rstat, nself, sstatus>>

\* self.expire_slices() at the head of GetVersion and of Allocate
Sweep(c) ==
    /\ requests[c].pc = "sweep"
    /\ \E out \in {sweep(State, now)} :
         /\ slices' = out.slices
         /\ res' = out.res
         /\ containers' = out.containers
    /\ Goto(c, [requests[c] EXCEPT
                  !.pc = IF requests[c].op = "GetVersion" THEN "done"
                         ELSE "verify"])
    /\ UNCHANGED <<now, result, rstat, nself, sstatus>>

\* self._cred_verifier.verify_from_strings in Allocate and in Delete
Verify(c) ==
    /\ requests[c].pc = "verify"
    /\ Goto(c, IF requests[c].creds = <<>>
               THEN [requests[c] EXCEPT !.pc = "done", !.raised = TRUE]
               ELSE [requests[c] EXCEPT !.pc = "check"])
    /\ UNCHANGED <<slices, res, containers, now, result, rstat, nself, sstatus>>

\* lines 282-308 of Allocate: the duplicate check, the list of the
\* available resources, the sufficiency check
AllocateCheck(c) ==
    LET rq == requests[c]
        available == resources(res, TRUE)
    IN /\ rq.op = "Allocate" /\ rq.pc = "check"
       /\ IF already_exists(slices, rq.slice_urn) THEN Done(c, 17)
          ELSE IF Len(rq.nodes) > Len(available) THEN Done(c, 6)
          ELSE Goto(c, [rq EXCEPT !.available = available,
                                  !.pc = IF rq.nodes = <<>> THEN "register"
                                         ELSE "bind"])
       /\ UNCHANGED <<slices, res, containers, now, result, rstat, nself, sstatus>>

\* lines 311-316 of Allocate, one turn of the loop
AllocateBind(c) ==
    LET rq == requests[c]
        resource == pop(rq.available, 1)
        client_id == rq.nodes[Len(rq.resources) + 1]
    IN /\ rq.op = "Allocate" /\ rq.pc = "bind"
       /\ res' = [res EXCEPT ![resource] = bind(res[resource], client_id)]
       /\ Goto(c, [rq EXCEPT !.available = Tail(rq.available),
                             !.resources = Append(rq.resources, resource),
                             !.pc = IF Len(rq.resources) + 1 = Len(rq.nodes)
                                    THEN "register" ELSE "bind"])
       /\ UNCHANGED <<slices, containers, now, result, rstat, nself, sstatus>>

\* lines 318-331 of Allocate: the slice is made and registered
AllocateRegister(c) ==
    LET rq == requests[c]
        rs == {rq.resources[i] : i \in 1..Len(rq.resources)}
        newslice == Slice(allocate_expiration(now, rq.creds), rs)
    IN /\ rq.op = "Allocate" /\ rq.pc = "register"
       /\ res' = [r \in ResIds |->
                    IF r \in rs THEN [res[r] EXCEPT !.state = STATE_GENI_ALLOCATED]
                    ELSE res[r]]
       /\ slices' = [u \in DOMAIN slices \cup {rq.slice_urn} |->
                       IF u = rq.slice_urn THEN newslice ELSE slices[u]]
       /\ Done(c, 0)
       /\ UNCHANGED <<containers, now, result, rstat, nself, sstatus>>

\* lines 391-397 of Delete: the slice is looked up, its status is read
DeleteCheck(c) ==
    LET rq == requests[c]
        theslice == slices[rq.slice_urn]
    IN /\ rq.op = "Delete" /\ rq.pc = "check"
       /\ IF rq.slice_urn \notin DOMAIN slices THEN Done(c, 12)
          ELSE IF status(statuses(res, slice_resources(theslice)),
                         Len(slice_resources(theslice))) = STATUS_SHUTDOWN
               THEN Done(c, 11)
          ELSE Goto(c, [rq EXCEPT !.resources = slice_resources(theslice),
                                  !.pc = "reset"])
       /\ UNCHANGED <<slices, res, containers, now, result, rstat, nself, sstatus>>

\* lines 398-400 of Delete: the resources of the slice are given back
DeleteReset(c) ==
    LET rq == requests[c]
        rs == {rq.resources[i] : i \in 1..Len(rq.resources)}
    IN /\ rq.op = "Delete" /\ rq.pc = "reset"
       /\ containers' = deallocate(containers, rq.slice_urn)
       /\ res' = [r \in ResIds |-> IF r \in rs THEN reset(res[r]) ELSE res[r]]
       /\ Goto(c, [rq EXCEPT !.pc = "remove"])
       /\ UNCHANGED <<slices, now, result, rstat, nself, sstatus>>

\* lines 401-403 of Delete: the slice leaves the registry
DeleteRemove(c) ==
    LET rq == requests[c]
    IN /\ rq.op = "Delete" /\ rq.pc = "remove"
       /\ slices' = [u \in DOMAIN slices \ {rq.slice_urn} |-> slices[u]]
       /\ Done(c, 0)
       /\ UNCHANGED <<res, containers, now, result, rstat, nself, sstatus>>

\* the server sends what the method returned
Respond(c) ==
    /\ requests[c].pc = "done"
    /\ Goto(c, NoRequest)
    /\ UNCHANGED <<slices, res, containers, now, result, rstat, nself, sstatus>>

\* the clock advances between two requests
ServerTick ==
    /\ free(requests)
    /\ now < MaxTicks * TimeStep
    /\ now' = now + TimeStep
    /\ UNCHANGED <<slices, res, containers, result, rstat, nself, sstatus, requests>>

ServerNext ==
    \/ ServerTick
    \/ \E c \in Callers :
         \/ Accept(c) \/ Sweep(c) \/ Verify(c)
         \/ AllocateCheck(c) \/ AllocateBind(c) \/ AllocateRegister(c)
         \/ DeleteCheck(c) \/ DeleteReset(c) \/ DeleteRemove(c)
         \/ Respond(c)

ServerSpec == Init /\ [][ServerNext]_vars

----------------------------------------------------------------------------
(* Vocabulary of the properties *)

\* the state a step leaves
StateAfter == [slices |-> slices', res |-> res', containers |-> containers']

\* a step that is a call of op, and a call of op that has just returned
Calls(op) == Idle /\ result'.op = op
Returned(op) == result.op = op /\ ~result.raised

\* the slices whose resource set holds r
SlicesOf(r) == {u \in DOMAIN slices : r \in slices[u]._resources}

\* the earliest expiry of a list of credentials
RECURSIVE MinExpiry(_)
MinExpiry(creds) ==
    IF Len(creds) = 1 THEN creds[1]
    ELSE Min2(Head(creds), MinExpiry(Tail(creds)))

\* some credential of the list is valid at the instant
Covers(creds, instant) == \E i \in 1..Len(creds) : creds[i] >= instant

\* the status of the slice urn, computed from its own resources
OwnStatus(urn) ==
    status(statuses(res, slice_resources(slices[urn])),
           Cardinality(slices[urn]._resources))

SliceUrn(u) == [type |-> "slice", name |-> u]

----------------------------------------------------------------------------
(* C1: no resource is in the resource sets of two registered slices.       *)
C1_NoDoubleBinding ==
    \A u1 \in DOMAIN slices, u2 \in DOMAIN slices :
        u1 # u2 => slices[u1]._resources \cap slices[u2]._resources = {}

\* an Allocate has succeeded while another slice holds resources
C1_Witness ==
    /\ Returned("Allocate") /\ result.geni_code = 0
    /\ Len(result.rspec.nodes) > 0
    /\ \E u \in DOMAIN slices :
         u # result.slice_urn /\ slices[u]._resources # {}

(* C2: a resource is unavailable exactly when it is in the resource set of *)
(* exactly one registered slice.                                           *)
C2_AvailableIffUnbound ==
    \A r \in ResIds : (~res[r].available) <=> (Cardinality(SlicesOf(r)) = 1)

\* a Delete has freed the resources of one slice, another slice keeps its own
C2_Witness ==
    /\ Returned("Delete") /\ result.geni_code = 0
    /\ \E r \in ResIds : res[r].available
    /\ \E r \in ResIds : ~res[r].available

(* C3: the expiration Allocate or RenewSliver has set exceeds neither the  *)
(* earliest expiry of the credentials verified for the call nor the time   *)
(* of the call plus the maximum lease.                                     *)
C3_ExpirationBounded ==
    (/\ result.op \in {"Allocate", "RenewSliver"}
     /\ ~result.raised /\ result.geni_code = 0)
    => /\ slices[result.slice_urn].expiration <= MinExpiry(result.creds)
       /\ slices[result.slice_urn].expiration <= now + max_lease

(* C4: every operation sweeps first, so an operation on a slice that had   *)
(* expired by the time of the call finds no such slice.                    *)
C4_SweepFirst ==
    [][(/\ Idle
        /\ result'.op \in {"Delete", "SliverStatus", "RenewSliver", "Shutdown"}
        /\ ~result'.raised
        /\ result'.slice_urn \in expired(slices, now))
       => result'.geni_code = 12]_vars

(* C5 as claimed: an Allocate naming more nodes than there are resources   *)
(* available returns code 6 and leaves the registry and the resources as   *)
(* they were before the call.                                              *)
C5_Original ==
    [][(/\ Calls("Allocate")
        /\ result'.creds # <<>>
        /\ result'.slice_urn \notin DOMAIN slices
        /\ result'.rspec.parses
        /\ Len(result'.rspec.nodes) > Len(resources(res, TRUE)))
       => /\ result'.geni_code = 6
          /\ StateAfter = State]_vars

(* C5 as amended: an Allocate naming more nodes than there are resources   *)
(* available once the call's sweep has run returns code 6 and leaves the   *)
(* registry and the resources as that sweep left them.                     *)
C5_InsufficientNoBinding ==
    [][(/\ Calls("Allocate")
        /\ result'.creds # <<>>
        /\ result'.slice_urn \notin DOMAIN sweep(State, now).slices
        /\ result'.rspec.parses
        /\ Len(result'.rspec.nodes) > Len(resources(sweep(State, now).res, TRUE)))
       => /\ ~result'.raised
          /\ result'.geni_code = 6
          /\ StateAfter = sweep(State, now)]_vars

\* an Allocate has failed for want of resources while some were available
C5_Witness ==
    /\ Returned("Allocate") /\ result.geni_code = 6
    /\ \E r \in ResIds : res[r].available
    /\ \E r \in ResIds : ~res[r].available

(* C6 as claimed: an Allocate for a URN that is registered and not expired *)
(* returns code 17 and changes neither that slice nor any resource.        *)
C6_Original ==
    [][(/\ Calls("Allocate")
        /\ result'.creds # <<>>
        /\ result'.slice_urn \in DOMAIN slices
        /\ slices[result'.slice_urn].expiration >= now)
       => /\ result'.geni_code = 17
          /\ result'.slice_urn \in DOMAIN slices'
          /\ slices'[result'.slice_urn] = slices[result'.slice_urn]
          /\ res' = res]_vars

(* C6 as amended: an Allocate for a URN that is registered and not expired *)
(* returns code 17, leaves that slice as it was and changes nothing but    *)
(* what the call's sweep reclaims from expired slices; and an Allocate     *)
(* succeeds only for a URN that is not registered once that sweep has run. *)
C6_DuplicateSlice ==
    [][/\ (/\ Calls("Allocate")
           /\ result'.creds # <<>>
           /\ result'.slice_urn \in DOMAIN slices
           /\ slices[result'.slice_urn].expiration >= now)
          => /\ ~result'.raised
             /\ result'.geni_code = 17
             /\ StateAfter = sweep(State, now)
             /\ result'.slice_urn \in DOMAIN slices'
             /\ slices'[result'.slice_urn] = slices[result'.slice_urn]
       /\ (/\ Calls("Allocate")
           /\ ~result'.raised
           /\ result'.geni_code = 0)
          => result'.slice_urn \notin DOMAIN sweep(State, now).slices]_vars

\* an Allocate has been refused for a slice that holds resources
C6_Witness ==
    /\ Returned("Allocate") /\ result.geni_code = 17
    /\ result.slice_urn \in DOMAIN slices
    /\ slices[result.slice_urn]._resources # {}

(* C7: an operation whose credentials do not verify raises and changes     *)
(* nothing, but for the sweep that ListResources and Allocate run before   *)
(* they verify.                                                            *)
C7_AuthFailureNoChange ==
    [][(/\ Idle
        /\ result'.op \in {"ListResources", "Allocate", "Delete",
                           "SliverStatus", "RenewSliver", "Shutdown"}
        /\ result'.creds = <<>>
        /\ result'.op = "Delete"
           => /\ result'.urns # <<>>
              /\ \A i \in 1..Len(result'.urns) : result'.urns[i].type = "slice")
       => /\ result'.raised
          /\ StateAfter = IF result'.op \in {"ListResources", "Allocate"}
                          THEN sweep(State, now)
                          ELSE State]_vars

\* a Delete of a slice that holds resources has raised for its credentials
C7_Witness ==
    /\ result.op = "Delete" /\ result.raised /\ result.creds = <<>>
    /\ result.slice_urn \in DOMAIN slices
    /\ slices[result.slice_urn]._resources # {}

(* C8: on a slice on which a Shutdown has succeeded and which has not      *)
(* expired, Delete returns code 11 and changes nothing, the slice's        *)
(* resources staying bound with status shutdown.  Stated for the slices    *)
(* that hold resources.                                                    *)
C8_ShutdownBlocksDelete ==
    (/\ Returned("Shutdown") /\ result.geni_code = 0
     /\ slices[result.slice_urn].expiration >= now
     /\ slices[result.slice_urn]._resources # {})
    => LET o == Delete(State, now, <<SliceUrn(result.slice_urn)>>, <<FarFuture>>)
       IN /\ o.ret.geni_code = 11
          /\ o.st = State
          /\ \A r \in slices[result.slice_urn]._resources :
                ~res[r].available /\ res[r].status = STATUS_SHUTDOWN

(* C9: a RenewSliver on a registered slice that is not shut down sets the  *)
(* expiration to the instant asked for if some credential expires at or    *)
(* after it, and otherwise returns code 19 and changes no expiration.      *)
C9_RenewBoundary ==
    [][(/\ Calls("RenewSliver")
        /\ result'.creds # <<>>
        /\ result'.slice_urn \in DOMAIN slices
        /\ OwnStatus(result'.slice_urn) # STATUS_SHUTDOWN)
       => /\ ~result'.raised
          /\ IF Covers(result'.creds, result'.requested)
             THEN /\ result'.geni_code = 0
                  /\ slices' = [slices EXCEPT ![result'.slice_urn].expiration =
                                                 result'.requested]
             ELSE /\ result'.geni_code = 19
                  /\ slices' = slices]_vars

\* a renewal asked for the very instant the latest credential expires has
\* succeeded
C9_Witness ==
    /\ Returned("RenewSliver") /\ result.geni_code = 0
    /\ \A i \in 1..Len(result.creds) : result.creds[i] <= result.requested
    /\ slices[result.slice_urn].expiration = result.requested

\* the status the precedence of section 3 gives a list of statuses
ClaimedStatus(rs) ==
    LET in(x) == \E i \in 1..Len(rs) : rs[i] = x
    IN IF in(STATUS_SHUTDOWN) THEN STATUS_SHUTDOWN
       ELSE IF in(STATUS_FAILED) THEN STATUS_FAILED
       ELSE IF in(STATUS_CONFIGURING) THEN STATUS_CONFIGURING
       ELSE IF rs # <<>> /\ \A i \in 1..Len(rs) : rs[i] = STATUS_READY
            THEN STATUS_READY
       ELSE STATUS_UNKNOWN

(* C10: the status of a slice follows the precedence shutdown, failed,     *)
(* configuring, ready (all members, at least one), unknown, and depends    *)
(* on the statuses handed in alone.                                        *)
C10_StatusPrecedence ==
    sstatus # "none" => sstatus = ClaimedStatus(rstat)

(* C11: after an Allocate of two nodes has succeeded with all three        *)
(* resources available, its two slivers are reported allocated; a          *)
(* SliverStatus of the slice then succeeds with the status unknown, a      *)
(* Delete of the slice then succeeds, and a SliverStatus after that        *)
(* returns code 12.                                                        *)
C11_RoundTrip ==
    (/\ Returned("Allocate") /\ result.geni_code = 0
     /\ Len(result.rspec.nodes) = 2
     /\ \A r \in ResIds :
           res[r].available <=> r \notin slices[result.slice_urn]._resources)
    => LET u == result.slice_urn
           valid == <<FarFuture>>
           first == SliverStatus(State, now, u, valid)
           deleted == Delete(first.st, now, <<SliceUrn(u)>>, valid)
           second == SliverStatus(deleted.st, now, u, valid)
       IN /\ Len(result.geni_slivers) = 2
          /\ \A i \in 1..Len(result.geni_slivers) :
                result.geni_slivers[i].geni_allocation_status = STATE_GENI_ALLOCATED
          /\ ~first.ret.raised /\ first.ret.geni_code = 0
          /\ first.ret.geni_status = STATUS_UNKNOWN
          /\ ~deleted.ret.raised /\ deleted.ret.geni_code = 0
          /\ ~second.ret.raised /\ second.ret.geni_code = 12

\* an Allocate of two nodes has succeeded from the catalog all available
C11_Witness ==
    /\ Returned("Allocate") /\ result.geni_code = 0
    /\ Len(result.rspec.nodes) = 2
    /\ Cardinality(slices[result.slice_urn]._resources) = 2
    /\ DOMAIN slices = {result.slice_urn}
    /\ Cardinality({r \in ResIds : res[r].available}) = 1

(* C12: a second run of expire_slices at the same time, with nothing in    *)
(* between, leaves the registry, the resources and the containers exactly  *)
(* as the first run left them.                                             *)
C12_SweepIdempotent ==
    LET once == sweep(State, now)
    IN sweep(once, now) = once

\* the first run has a slice with resources to reclaim and leaves another
C12_Witness ==
    /\ \E u \in expired(slices, now) : slices[u]._resources # {}
    /\ \E u \in DOMAIN slices \ expired(slices, now) : slices[u]._resources # {}

\* the operations that take credentials
Authorized ==
    {"ListResources", "Allocate", "Delete", "SliverStatus", "RenewSliver",
     "Shutdown"}

\* the codes of the error taxonomy
Taxonomy == {1, 4, 5, 6, 11, 12, 17, 19}

(* C13: whatever an operation has done, its caller gets an envelope, never *)
(* an exception, and the code of the envelope carries geni_code, am_type   *)
(* and am_code.                                                            *)
C13_UniformEnvelope ==
    result.op # "none"
    => LET envelope == AggregateManager(result)
       IN /\ ~envelope.raised
          /\ envelope.am_type # ""
          /\ envelope.has_am_code

(* C14: when the credentials of an operation do not verify, its caller     *)
(* gets an envelope whose geni_code is neither 0 nor a code of the         *)
(* taxonomy, and whose value is the empty string.                          *)
C14_AuthFailureEnvelope ==
    (/\ result.op \in Authorized
     /\ result.creds = <<>>
     /\ result.op = "Delete"
        => /\ result.urns # <<>>
           /\ \A i \in 1..Len(result.urns) : result.urns[i].type = "slice")
    => LET envelope == AggregateManager(result)
       IN /\ ~envelope.raised
          /\ envelope.geni_code \notin {0} \cup Taxonomy
          /\ envelope.value = ""

(* C16: once a Shutdown of a registered slice has succeeded, every         *)
(* resource of the slice has status shutdown, and the status a             *)
(* SliverStatus reports for a slice that holds resources is shutdown.      *)
C16_ShutdownMarksAll ==
    (Returned("Shutdown") /\ result.geni_code = 0)
    => LET u == result.slice_urn
       IN /\ \A r \in slices[u]._resources : res[r].status = STATUS_SHUTDOWN
          /\ slices[u]._resources # {}
             => SliverStatus(State, now, u, <<FarFuture>>).ret.geni_status
                  = STATUS_SHUTDOWN

\* the resource is shut down: it has the status, or it is in the slice a
\* Shutdown has just succeeded on
ShutDown(r) ==
    \/ res[r].status = STATUS_SHUTDOWN
    \/ /\ Returned("Shutdown") /\ result.geni_code = 0
       /\ r \in slices[result.slice_urn]._resources

C18_NoSuchSlice ==
    [][(/\ Idle
        /\ result'.op \in {"Delete", "SliverStatus", "RenewSliver", "Shutdown"}
        /\ result'.creds # <<>>
        /\ IF result'.op = "Delete"
           THEN /\ result'.urns # <<>>
                /\ \A i \in 1..Len(result'.urns) : result'.urns[i].type = "slice"
                /\ result'.urns[1].name \notin DOMAIN slices
           ELSE result'.slice_urn \notin DOMAIN slices)
       => /\ ~result'.raised
          /\ result'.geni_code = 12
          /\ StateAfter = State]_vars

\* one of the four has been refused for want of the slice while another
\* slice was registered and held resources
C18_Witness ==
    /\ result.op \in {"Delete", "SliverStatus", "RenewSliver", "Shutdown"}
    /\ ~result.raised /\ result.geni_code = 12
    /\ result.slice_urn \notin DOMAIN slices
    /\ \E u \in DOMAIN slices : slices[u]._resources # {}

(* C19: the slice a successful Allocate has registered expires at the      *)
(* earlier of the time of the call plus ten minutes and the earliest       *)
(* expiry among the credentials verified for the call.                     *)
C19_AllocateExpiration ==
    (Returned("Allocate") /\ result.geni_code = 0)
    => /\ result.slice_urn \in DOMAIN slices
       /\ slices[result.slice_urn].expiration =
            Min2(now + ALLOCATE_EXPIRATION_SECONDS, MinExpiry(result.creds))

\* the slice has the expiry of the second of two credentials, which is the
\* earlier one and earlier than ten minutes from the call
C19_Witness ==
    /\ Returned("Allocate") /\ result.geni_code = 0
    /\ Len(result.creds) = 2
    /\ result.creds[2] < result.creds[1]
    /\ result.creds[2] < now + ALLOCATE_EXPIRATION_SECONDS
    /\ slices[result.slice_urn].expiration = result.creds[2]

(* C20 as claimed: a successful Allocate of n nodes binds the first n      *)
(* resources that were available, in the order of the catalog, the i-th    *)
(* node to the i-th of them; each becomes unavailable and allocated and    *)
(* takes the client id of its node, and every other resource is as it was  *)
(* before the call.                                                        *)
C20_Original ==
    [][(Calls("Allocate") /\ ~result'.raised /\ result'.geni_code = 0)
       => LET available == resources(res, TRUE)
              unbound == result'.rspec.nodes
              n == Len(unbound)
          IN /\ n <= Len(available)
             /\ slices'[result'.slice_urn]._resources = {available[i] : i \in 1..n}
             /\ \A i \in 1..n :
                   res'[available[i]] =
                     [res[available[i]] EXCEPT !.available = FALSE,
                                               !.state = STATE_GENI_ALLOCATED,
                                               !.external_id = unbound[i]]
             /\ \A r \in ResIds \ {available[i] : i \in 1..n} :
                   res'[r] = res[r]]_vars

(* C20 as amended: a successful Allocate of n nodes binds the first n      *)
(* resources available once the sweep of the call has run, in the order of *)
(* the catalog, the i-th node to the i-th of them; each becomes            *)
(* unavailable and allocated and takes the client id of its node, and      *)
(* every other resource is as that sweep left it.                          *)
C20_FirstAvailable ==
    [][(Calls("Allocate") /\ ~result'.raised /\ result'.geni_code = 0)
       => LET swept == sweep(State, now).res
              available == resources(swept, TRUE)
              unbound == result'.rspec.nodes
              n == Len(unbound)
          IN /\ n <= Len(available)
             /\ slices'[result'.slice_urn]._resources = {available[i] : i \in 1..n}
             /\ \A i \in 1..n :
                   res'[available[i]] =
                     [swept[available[i]] EXCEPT !.available = FALSE,
                                                 !.state = STATE_GENI_ALLOCATED,
                                                 !.external_id = unbound[i]]
             /\ \A r \in ResIds \ {available[i] : i \in 1..n} :
                   res'[r] = swept[r]]_vars

\* an Allocate of two nodes has bound the second and the third resource of
\* the catalog, in this order, the first one being held by another slice
C20_Witness ==
    /\ Returned("Allocate") /\ result.geni_code = 0
    /\ Len(result.rspec.nodes) = 2
    /\ slices[result.slice_urn]._resources = {2, 3}
    /\ res[2].external_id = result.rspec.nodes[1]
    /\ res[3].external_id = result.rspec.nodes[2]
    /\ ~res[1].available

\* what the operation of a request does when run in one piece from the
\* state and at the time the request began with
InOnePiece(rq) ==
    IF rq.op = "Allocate"
    THEN Allocate(rq.st0, rq.t0, rq.slice_urn, rq.creds,
                  [parses |-> TRUE, nodes |-> rq.nodes])
    ELSE IF rq.op = "Delete"
    THEN Delete(rq.st0, rq.t0, <<SliceUrn(rq.slice_urn)>>, rq.creds)
    ELSE GetVersion(rq.st0, rq.t0)

\* the request has written a part of what it writes
MidWrite(rq) == rq.pc \in {"bind", "register", "reset", "remove"} /\ rq.resources # <<>>

RECURSIVE MaxExpiry(_)
MaxExpiry(creds) ==
    IF Len(creds) = 1 THEN creds[1]
    ELSE LET m == MaxExpiry(Tail(creds))
         IN IF Head(creds) > m THEN Head(creds) ELSE m

(* C21: the ceiling a RenewSliver that has failed with code 19 reports is  *)
(* the latest expiry among the credentials verified for the call.          *)
C21_RenewalCeiling ==
    (Returned("RenewSliver") /\ result.geni_code = 19)
    => result.maxexp = MaxExpiry(result.creds)

(* C22: on a slice that holds resources and on which a Shutdown has        *)
(* succeeded, a RenewSliver returns code 11 and changes nothing, whatever  *)
(* instant it asks for and even with a credential that covers it.          *)
C22_ShutdownBlocksRenew ==
    (/\ Returned("Shutdown") /\ result.geni_code = 0
     /\ slices[result.slice_urn]._resources # {})
    => \A requested \in ReqInstants :
         LET o == RenewSliver(State, now, result.slice_urn, <<FarFuture + 1>>,
                              requested)
         IN /\ ~o.ret.raised
            /\ o.ret.geni_code = 11
            /\ o.st = State

\* a request RSpec of n nodes
Nodes(n) == [parses |-> TRUE, nodes |-> [i \in 1..n |-> i]]

(* C23: a Delete that has succeeded has reset every resource of the slice  *)
(* (available, unconfigured, unallocated, no client id), has removed the   *)
(* slice from the registry and has left every other slice and every other  *)
(* resource as they were; an Allocate that follows can bind the resources  *)
(* it has freed.                                                           *)
C23_DeleteFrame ==
    [][(Calls("Delete") /\ ~result'.raised /\ result'.geni_code = 0)
       => LET u == result'.slice_urn
              after == StateAfter
              n == Len(resources(sweep(after, now).res, TRUE))
              again == Allocate(after, now, u, <<FarFuture>>, Nodes(n))
          IN /\ u \in DOMAIN slices
             /\ DOMAIN slices' = DOMAIN slices \ {u}
             /\ \A v \in DOMAIN slices' : slices'[v] = slices[v]
             /\ \A r \in slices[u]._resources :
                   /\ res'[r].available
                   /\ res'[r].status = STATUS_UNCONFIGURED
                   /\ res'[r].state = STATE_GENI_UNALLOCATED
                   /\ res'[r].external_id = None
             /\ \A r \in ResIds \ slices[u]._resources : res'[r] = res[r]
             /\ again.ret.geni_code = 0
             /\ slices[u]._resources \subseteq again.st.slices[u]._resources]_vars

\* a Delete has freed the two resources of a slice while another slice
\* keeps the third
C23_Witness ==
    /\ Returned("Delete") /\ result.geni_code = 0
    /\ result.slice_urn \notin DOMAIN slices
    /\ Cardinality({r \in ResIds : res[r].available}) = 2
    /\ \E u \in DOMAIN slices : Cardinality(slices[u]._resources) = 1

(* C24: the sweep of a GetVersion at time now removes the slices whose     *)
(* expiration is before now and no other (a slice that expires at now      *)
(* stays), resets every resource of the slices it removes, and leaves      *)
(* every other slice and every other resource as they were; no slice left  *)
(* expires before now.                                                     *)
C24_SweepExact ==
    [][Calls("GetVersion")
       => LET gone == {u \in DOMAIN slices : slices[u].expiration < now}
              freed == UNION {slices[u]._resources : u \in gone}
          IN /\ DOMAIN slices' = DOMAIN slices \ gone
             /\ \A u \in DOMAIN slices' : slices'[u] = slices[u]
             /\ \A r \in freed :
                   /\ res'[r].available
                   /\ res'[r].status = STATUS_UNCONFIGURED
                   /\ res'[r].state = STATE_GENI_UNALLOCATED
                   /\ res'[r].external_id = None
             /\ \A r \in ResIds \ freed : res'[r] = res[r]
             /\ \A u \in DOMAIN slices' : slices'[u].expiration >= now]_vars

\* a GetVersion has swept: a slice that expires at this very time is still
\* there with its resources, and a resource is free
C24_Witness ==
    /\ Returned("GetVersion") /\ now > 0
    /\ \E u \in DOMAIN slices :
         slices[u].expiration = now /\ slices[u]._resources # {}
    /\ \E r \in ResIds : res[r].available

(* C25: a SliverStatus of a registered slice, the credentials verified,    *)
(* succeeds with one status entry for each resource of the slice, each     *)
(* with the status of its resource, and with the status of the slice       *)
(* computed from these resources; it changes nothing.                      *)
C25_StatusEntries ==
    [][(/\ Calls("SliverStatus")
        /\ result'.creds # <<>>
        /\ result'.slice_urn \in DOMAIN slices)
       => LET members == slices[result'.slice_urn]._resources
              entries == result'.geni_resources
          IN /\ ~result'.raised
             /\ result'.geni_code = 0
             /\ Len(entries) = Cardinality(members)
             /\ {entries[i].resource : i \in 1..Len(entries)} = members
             /\ \A i \in 1..Len(entries) :
                   entries[i].geni_status = res[entries[i].resource].status
             /\ result'.geni_status = OwnStatus(result'.slice_urn)
             /\ StateAfter = State]_vars

(* C26: a Delete whose URNs are of more than one type returns code 1, a    *)
(* Delete whose URNs are all sliver URNs returns code 5, and either leaves *)
(* the registry, the resources and the containers as they were.            *)
C26_DeleteBadUrns ==
    [][(Calls("Delete") /\ result'.urns # <<>>)
       => LET urns == result'.urns
              types == {urns[i].type : i \in 1..Len(urns)}
          IN /\ Cardinality(types) > 1
                => /\ ~result'.raised /\ result'.geni_code = 1
                   /\ StateAfter = State
             /\ types = {"sliver"}
                => /\ ~result'.raised /\ result'.geni_code = 5
                   /\ StateAfter = State]_vars

\* a Delete naming a registered slice that holds resources, and a sliver,
\* has been refused
C26_Witness ==
    /\ Returned("Delete") /\ result.geni_code = 1
    /\ Len(result.urns) = 2
    /\ result.urns[1].type = "slice" /\ result.urns[2].type = "sliver"
    /\ result.urns[1].name \in DOMAIN slices
    /\ slices[result.urns[1].name]._resources # {}

C28_RenewFrame ==
    [][(Calls("RenewSliver") /\ ~result'.raised /\ result'.geni_code = 0)
       => LET u == result'.slice_urn
          IN /\ u \in DOMAIN slices
             /\ DOMAIN slices' = DOMAIN slices
             /\ slices'[u].expiration = result'.requested
             /\ slices'[u]._resources = slices[u]._resources
             /\ \A v \in DOMAIN slices \ {u} : slices'[v] = slices[v]
             /\ res' = res
             /\ containers' = containers]_vars

\* a renewal has brought the expiration of a slice that holds resources
\* back to an instant before the time of the call, another slice standing
C28_Witness ==
    /\ Returned("RenewSliver") /\ result.geni_code = 0
    /\ result.requested < now
    /\ slices[result.slice_urn].expiration = result.requested
    /\ slices[result.slice_urn]._resources # {}
    /\ \E v \in DOMAIN slices : v # result.slice_urn

\* the last instant of the clock: a slice that expires before it has
\* expired once the clock is there
Horizon == MaxTicks * TimeStep

(* C29: a slice that holds resources and whose expiration is before the   *)
(* last instant of the clock is in the end renewed again, or is removed    *)
(* from the registry (its URN free, or taken by a slice made since that    *)
(* expires later), and then every resource that no slice holds is          *)
(* available, unconfigured and unallocated.                                *)
C29_EventuallyReclaimed ==
    \A u \in SliceUrns :
        (/\ u \in DOMAIN slices
         /\ slices[u].expiration < Horizon
         /\ slices[u]._resources # {})
        ~> (\/ /\ Returned("RenewSliver") /\ result.geni_code = 0
               /\ result.slice_urn = u
            \/ /\ u \in DOMAIN slices => slices[u].expiration >= Horizon
               /\ \A r \in ResIds :
                     SlicesOf(r) = {}
                     => /\ res[r].available
                        /\ res[r].status = STATUS_UNCONFIGURED
                        /\ res[r].state = STATE_GENI_UNALLOCATED)

====
